---- MODULE Spec2Model ----
(***************************************************************************)
(* rdp2tcp server, tunnels management (server/tunnel.c).                   *)
(*                                                                         *)
(* The tunnel registry (all_tunnels), the identifier allocator             *)
(* (tunnel_generate_id), the per-tunnel handlers driven by tunnel_event    *)
(* and the entry points tunnel_create, tunnel_write, tunnel_close and      *)
(* tunnels_kill.                                                           *)
(*                                                                         *)
(* The C handlers run sequentially and call collaborators whose result the *)
(* code branches on (net_client, net_write, channel_write, ...).  Each     *)
(* handler is an operator from a machine state `st` to the SET of          *)
(* outcomes [st, ret] it can produce, one per combination of collaborator  *)
(* results; sequencing is the union over the outcomes of the earlier call. *)
(* An action of the specification is one whole entry point: it picks one   *)
(* outcome and installs its state.                                         *)
(*                                                                         *)
(* WSAEnumNetworkEvents is taken to report event sets a socket of that     *)
(* kind can signal (see NetworkEvents): a listening socket signals         *)
(* FD_ACCEPT alone, so tunnel_event does not go on to the FD_READ and      *)
(* FD_CLOSE branches after tunnel_accept_event.  A failed                  *)
(* WSAEnumNetworkEvents changes nothing and is left out.                   *)
(***************************************************************************)
EXTENDS Integers, Sequences, FiniteSets, TLC

(***************************************************************************)
(* Bounds of the model.                                                    *)
(***************************************************************************)
\* largest value of the (scaled down) unsigned char tunnel id; it plays the
\* role of 0xff, ids are 0..TidMax and arithmetic on them is modulo TidMax+1
TidMax == 2
\* Spec: tunnels and accepted sockets allocated in one behaviour, records
\* written to the channel, bytes passed to tunnel_write for one tunnel
MaxHandles == 2
MaxChan == 3
MaxBytes == 1
\* SpecWrite: the same three bounds
WrHandles == 2
WrChan == 1
WrBytes == 3
\* SpecConn: tunnels allocated, records written to the channel
ConnHandles == 2
ConnChan == 2
\* SpecWide: tunnels and accepted sockets, records written to the channel
WideHandles == 2
WideChan == 2
\* SpecIds: tunnels and accepted sockets, records written to the channel
IdHandles == 3
IdChan == 2

Tids == 0..TidMax
Bytes == {"a", "b"}

(***************************************************************************)
(* State.                                                                  *)
(***************************************************************************)
VARIABLES
    heap,         \* tunnel_t objects: pointer -> fields, for allocated pointers
    all_tunnels,  \* the registry: the list of pointers, in list order
    last_tid,     \* static last_tid of tunnel_generate_id
    events,       \* event engine: outstanding registrations [h, id]
    open,         \* endpoint handles (sockets, process pipes) that are open
    channel,      \* records written to the channel so far, oldest first
    wreq,         \* per tunnel, the bytes passed to tunnel_write so far
    wsent,        \* per tunnel, the bytes written to its endpoint so far
    next_h,       \* next fresh pointer / handle number
    last_op       \* the entry point that ran last, with its inputs and result

vars == <<heap, all_tunnels, last_tid, events, open, channel, wreq, wsent,
          next_h, last_op>>

\* the error code 0
NoError == "NOERROR"

\* no id: the value of `gen` while tunnel_generate_id has not been called
NoId == TidMax + 1

\* the machine state the handlers transform.  afs, errs and masks are what the
\* socket layer can report in this behaviour: address families, OS error codes
\* and event sets ("usual" or "any", see NetworkEvents).
\* Six fields describe the entry
\* point that is running: gen is what tunnel_generate_id returned, why is the
\* reason it destroyed its tunnel ("fdclose", "procexit", "error"), lost are
\* the commands of the records whose channel_write failed, cerr is the OS
\* error of the connect that failed, drain says that a write of wio to the
\* endpoint was attempted, uaf that a handler was run on a freed tunnel
State(b) ==
    [afs |-> b.afs, errs |-> b.errs, masks |-> b.masks, heap |-> heap, all_tunnels |-> all_tunnels, last_tid |-> last_tid,
     events |-> events, open |-> open, channel |-> channel,
     wreq |-> wreq, wsent |-> wsent, gen |-> NoId, why |-> "", lost |-> {},
     cerr |-> NoError, drain |-> FALSE, uaf |-> FALSE]

Install(st) ==
    /\ heap' = st.heap
    /\ all_tunnels' = st.all_tunnels
    /\ last_tid' = st.last_tid
    /\ events' = st.events
    /\ open' = st.open
    /\ channel' = st.channel
    /\ wreq' = st.wreq
    /\ wsent' = st.wsent

Out(st, ret) == [st |-> st, ret |-> ret]

(***************************************************************************)
(* Values of the program.                                                  *)
(***************************************************************************)
NULL == 0

R2TERR_SUCCESS == 0
R2TERR_GENERIC == 1
R2TERR_FORBIDDEN == 2
R2TERR_CONNREFUSED == 3
R2TERR_NOTAVAIL == 4
R2TERR_RESOLVE == 5

\* OS error codes of the socket layer: one that wsa_to_r2t_error has a case
\* for and one, WSAETIMEDOUT, that it has none for
WsaErrors == {"WSAECONNREFUSED", "WSAETIMEDOUT"}

Afs == {"AF_INET", "AF_INET6"}

\* calloc(1, sizeof(tunnel_t)) with the id set; org remembers how the tunnel
\* came to be: "connect", "bind", "process" (tunnel_create) or "accept"
tunnel_t(id, org) ==
    [id |-> id, connected |-> 0, server |-> 0, proc |-> 0, af |-> "AF_INET",
     wio |-> <<>>, org |-> org]

\* a channel record: command, tunnel id, first payload byte, payload length;
\* and, for the properties, the tunnel object whose id it carries, how that
\* tunnel came to be, and the child an RCONN announces
Record(st, cmd, tun, arg, len, new) ==
    [cmd |-> cmd, id |-> st.heap[tun].id, arg |-> arg, len |-> len,
     tun |-> tun, org |-> st.heap[tun].org, new |-> new]

(***************************************************************************)
(* Collaborators outside tunnel.c: the channel, the event engine, the      *)
(* socket layer.  Each returns every outcome the callers branch on.        *)
(***************************************************************************)
\* channel_write(cmd, id, payload, len): the record is framed onto the
\* channel (>= 0) or the write fails and nothing is emitted (< 0)
channel_write(st, cmd, tun, arg, len, new) ==
    { Out([st EXCEPT !.channel =
              Append(@, Record(st, cmd, tun, arg, len, new))], 0),
      Out([st EXCEPT !.lost = @ \cup {cmd}], -1) }

\* channel_forward(tun): rio is drained into a DATA record for tun->id, or fails
channel_forward(st, tun) ==
    { Out([st EXCEPT !.channel =
              Append(@, Record(st, "DATA", tun, 0, 0, NULL))], 0),
      Out(st, -1) }

\* event_add_tunnel(evt, id): 0 and the handle is registered for id, or non-zero
event_add_tunnel(st, h, id) ==
    { Out([st EXCEPT !.events = @ \cup {[h |-> h, id |-> id]}], 0),
      Out(st, -1) }

\* event_del_tunnel(id): every registration made for id is dropped (a process
\* tunnel registers several handles and tunnel_close undoes them with one call)
event_del_tunnel(st, id) ==
    [st EXCEPT !.events = {e \in @ : e.id # id}]

\* net_close(&sock)
net_close(st, h) == [st EXCEPT !.open = @ \ {h}]

\* net_update_watch(&tun->sock, &tun->wio.buf): 0, or non-zero on failure
net_update_watch == {0, -1}

\* net_write(&tun->sock, &tun->wio.buf, NULL, 0, &w): the first w bytes of the
\* buffer go to the socket and leave the buffer (w may be 0: would block)
net_write(st, tun, w) ==
    [st EXCEPT !.wsent[tun] = @ \o SubSeq(st.heap[tun].wio, 1, w),
               !.heap[tun].wio = SubSeq(@, w + 1, Len(@))]

(***************************************************************************)
(* tunnel.c                                                                *)
(***************************************************************************)
\* the first tunnel of the list with this id, NULL if there is none
RECURSIVE lookup_from(_, _, _)
lookup_from(st, id, i) ==
    IF i > Len(st.all_tunnels) THEN NULL
    ELSE IF st.heap[st.all_tunnels[i]].id = id THEN st.all_tunnels[i]
    ELSE lookup_from(st, id, i + 1)

tunnel_lookup(st, id) == lookup_from(st, id, 1)

wsa_to_r2t_error(err) ==
    CASE err = "WSAEACCES" -> R2TERR_FORBIDDEN
      [] err = "WSAECONNREFUSED" -> R2TERR_CONNREFUSED
      [] err = "WSAEADDRNOTAVAIL" -> R2TERR_NOTAVAIL
      [] err = "WSAHOST_NOT_FOUND" -> R2TERR_RESOLVE
      [] OTHER -> R2TERR_GENERIC

\* unsigned char increment
next_tid(tid) == (tid + 1) % (TidMax + 1)

\* a faulty tunnel_generate_id: the next id is returned without the lookup
tunnel_generate_id_blind(st) ==
    Out([st EXCEPT !.last_tid = next_tid(st.last_tid),
                   !.gen = next_tid(st.last_tid)], next_tid(st.last_tid))

\* a faulty tunnel_generate_id: the id after last_tid, 0xff skipped, is
\* returned whether it is in the registry or not
tunnel_generate_id_unbounded(st) ==
    LET tid == IF next_tid(st.last_tid) = TidMax THEN 0
               ELSE next_tid(st.last_tid)
    IN Out([st EXCEPT !.last_tid = tid, !.gen = tid], tid)

\* the for loop of tunnel_generate_id, entered with the loop variable tid
RECURSIVE generate_id_loop(_, _)
generate_id_loop(st, tid) ==
    IF tid = st.last_tid THEN Out([st EXCEPT !.gen = TidMax], TidMax)
    ELSE IF tunnel_lookup(st, tid) = NULL
         THEN Out([st EXCEPT !.last_tid = tid, !.gen = tid], tid)
         ELSE generate_id_loop(st, next_tid(tid))

\* a faulty tunnel_generate_id: last_tid is not static, every call scans
\* from 0 and nothing is kept
tunnel_generate_id_forgetful(st) ==
    LET o == generate_id_loop([st EXCEPT !.last_tid = TidMax], 0)
    IN Out([o.st EXCEPT !.last_tid = st.last_tid], o.ret)

tunnel_generate_id(st) == generate_id_loop(st, next_tid(st.last_tid))

\* length of the answer netaddr_to_connans builds (its err byte is 0)
netaddr_to_connans(af) == IF af = "AF_INET" THEN 8 ELSE 20

tunnel_socksend_event(st, tun) ==
    LET s1 == [st EXCEPT !.drain = TRUE]
    IN { Out(s1, -1) }
       \cup { Out(net_write(s1, tun, w), 0) : w \in 0..Len(s1.heap[tun].wio) }

\* a faulty answer: nothing is written when the connect succeeded
connect_answer_unwritten(st, tun, ans_err, ans_len) ==
    IF ans_err = R2TERR_SUCCESS THEN { Out(st, 0) }
    ELSE { Out(o.st, -1)
             : o \in channel_write(st, "CONN", tun, ans_err, ans_len, NULL) }

\* the CONN answer of tunnel_connect_event and its return value: 0 only when
\* the answer was written and says success
connect_answer(st, tun, ans_err, ans_len) ==
    { Out(o.st, IF o.ret >= 0 /\ ans_err = R2TERR_SUCCESS THEN 0 ELSE -1)
        : o \in channel_write(st, "CONN", tun, ans_err, ans_len, NULL) }

\* err is NoError (0) or the OS error code of the connect
tunnel_connect_event(st, tun, err) ==
    IF err = NoError
    THEN LET s1 == [st EXCEPT !.heap[tun].connected = 1]
             ok_len == netaddr_to_connans(s1.heap[tun].af)
         IN UNION {
              IF uw # 0
              THEN \* the watch is not updated: ans stays {R2TERR_GENERIC}, 1 byte
                   connect_answer(s1, tun, R2TERR_GENERIC, 1)
              ELSE IF Len(s1.heap[tun].wio) > 0
              THEN UNION {
                     IF w.ret < 0
                     THEN connect_answer(w.st, tun, R2TERR_GENERIC, 1)
                     ELSE connect_answer(w.st, tun, R2TERR_SUCCESS, ok_len)
                       : w \in tunnel_socksend_event(s1, tun) }
              ELSE connect_answer(s1, tun, R2TERR_SUCCESS, ok_len)
                : uw \in net_update_watch }
    ELSE connect_answer([st EXCEPT !.cerr = err], tun, wsa_to_r2t_error(err), 1)

\* net_client(pref_af, host, port, &tun->sock, &tun->addr, &err): < 0 with the
\* OS error in err and no socket, 0 connected, > 0 connect in progress; the
\* socket is then open and tun->addr holds the peer address
net_client(st, tun) ==
    { [st |-> st, ret |-> -1, err |-> e] : e \in st.errs }
    \cup { [st |-> [st EXCEPT !.open = @ \cup {tun}, !.heap[tun].af = af],
            ret |-> r, err |-> NoError] : r \in {0, 1}, af \in st.afs }

\* the failure tail of host_connect: lines 194-199
host_connect_fail(st, tun, ret, err) ==
    { Out(IF ret >= 0 THEN net_close(o.st, tun) ELSE o.st, -1)
        : o \in channel_write(st, "CONN", tun, wsa_to_r2t_error(err), 1, NULL) }

host_connect(st, tun) ==
    UNION {
      IF c.ret >= 0
      THEN UNION {
             IF a.ret = 0
             THEN IF c.ret = 0
                  THEN tunnel_connect_event(a.st, tun, NoError)
                  ELSE { Out(a.st, c.ret) }
             ELSE \* err was not written by net_client: any value may be read
                  UNION { host_connect_fail(a.st, tun, c.ret, e)
                            : e \in a.st.errs \cup {NoError} }
               : a \in event_add_tunnel(c.st, tun, c.st.heap[tun].id) }
      ELSE host_connect_fail([c.st EXCEPT !.cerr = c.err], tun, c.ret, c.err)
        : c \in net_client(st, tun) }

\* net_server(pref_af, host, port, &tun->sock, &tun->addr, &err): 0 and the
\* socket listens, or non-zero with the OS error in err
net_server(st, tun) ==
    { [st |-> st, ret |-> -1, err |-> e] : e \in st.errs }
    \cup { [st |-> [st EXCEPT !.open = @ \cup {tun}, !.heap[tun].af = af],
            ret |-> 0, err |-> NoError] : af \in st.afs }

\* the tail of host_bind from the channel_write on: lines 232-245
host_bind_answer(st, tun, ret, ans_err, ans_len) ==
    { IF o.ret >= 0 /\ ans_err = 0
      THEN Out([o.st EXCEPT !.heap[tun].connected = 1,
                            !.heap[tun].server = 1], 0)
      ELSE IF ret = 0
      THEN Out(net_close(event_del_tunnel(o.st, o.st.heap[tun].id), tun), -1)
      ELSE Out(o.st, -1)
        : o \in channel_write(st, "BIND", tun, ans_err, ans_len, NULL) }

host_bind(st, tun) ==
    UNION {
      IF s.ret = 0
      THEN UNION {
             IF a.ret # 0
             THEN host_bind_answer(net_close(a.st, tun), tun, -1, R2TERR_GENERIC,
                                   netaddr_to_connans(s.st.heap[tun].af))
             ELSE host_bind_answer(a.st, tun, 0, 0,
                                   netaddr_to_connans(s.st.heap[tun].af))
               : a \in event_add_tunnel(s.st, tun, s.st.heap[tun].id) }
      ELSE host_bind_answer(s.st, tun, s.ret, wsa_to_r2t_error(s.err), 1)
        : s \in net_server(st, tun) }

\* process_start(tun, host): the child is spawned with piped stdin/stdout and
\* its handles are registered for tun->id (tunnel established), or < 0
process_start(st, tun) ==
    { Out([st EXCEPT !.open = @ \cup {tun},
                     !.events = @ \cup {[h |-> tun, id |-> st.heap[tun].id]},
                     !.heap[tun].proc = 1,
                     !.heap[tun].connected = 1], 0),
      Out(st, -1) }

\* tunnel_alloc(id) into the fresh pointer tun; NULL when calloc fails
tunnel_alloc(st, tun, id, org) ==
    { Out([st EXCEPT !.heap = (tun :> tunnel_t(id, org)) @@ @,
                     !.wreq = (tun :> <<>>) @@ @,
                     !.wsent = (tun :> <<>>) @@ @], tun),
      Out(st, NULL) }

\* free(tun)
free(st, tun) ==
    [st EXCEPT !.heap = [p \in DOMAIN @ \ {tun} |-> @[p]]]

list_add_tail(st, tun) == [st EXCEPT !.all_tunnels = Append(@, tun)]

list_del(st, tun) ==
    [st EXCEPT !.all_tunnels = SelectSeq(@, LAMBDA p : p # tun)]

\* kind is "connect" (port > 0, !bind_socket), "bind" (port > 0, bind_socket)
\* or "process" (port = 0)
tunnel_create(st, tun, id, kind) ==
    UNION {
      IF al.ret = NULL THEN { Out(al.st, -1) }
      ELSE { IF o.ret >= 0
             THEN Out(list_add_tail(o.st, tun), o.ret)
             ELSE Out(free(o.st, tun), o.ret)
               : o \in CASE kind = "connect" -> host_connect(al.st, tun)
                         [] kind = "bind" -> host_bind(al.st, tun)
                         [] OTHER -> process_start(al.st, tun) }
        : al \in tunnel_alloc(st, tun, id, kind) }

\* a faulty tunnel_close: every tunnel with the id of tun is destroyed
tunnel_close_by_id(st, tun) ==
    LET gone == { p \in DOMAIN st.heap : st.heap[p].id = st.heap[tun].id }
    IN [st EXCEPT !.all_tunnels = SelectSeq(@, LAMBDA p : p \notin gone),
                  !.events = {e \in @ : e.id # st.heap[tun].id},
                  !.open = @ \ gone,
                  !.heap = [p \in DOMAIN @ \ gone |-> @[p]]]

\* process_stop closes the pipes and the child handle, net_close the socket
tunnel_close(st, tun) ==
    free(net_close(event_del_tunnel(list_del(st, tun), st.heap[tun].id), tun),
         tun)

\* net_read(&tun->sock, &tun->rio.buf, ...): < 0 on error, else r bytes read
net_read == {-1, 0, 1}

tunnel_sockrecv_event(st, tun) ==
    UNION {
      IF r < 0 THEN { Out(st, -1) }
      ELSE IF r > 0
      THEN { Out(f.st, IF f.ret < 0 THEN -1 ELSE 0) : f \in channel_forward(st, tun) }
      ELSE { Out(st, 0) }
        : r \in net_read }

\* aio_read(&tun->rio, tun->rfd, "tun", on_read_completed, tun): < 0 on error
\* or end of file, 0 while the read is pending, else on_read_completed's result
tunnel_fdread_event(st, tun) ==
    { Out(st, -1), Out(st, 0) } \cup channel_forward(st, tun)

\* aio_write(&tun->wio, tun->wfd, "tun"): bytes of wio go to the pipe, or < 0
tunnel_fdwrite_event(st, tun) ==
    LET s1 == [st EXCEPT !.drain = TRUE]
    IN { Out(s1, -1) }
       \cup { Out(net_write(s1, tun, w), 0) : w \in 0..Len(s1.heap[tun].wio) }

\* net_accept(&tun->sock, &cli_sock, &addr): non-zero, or 0 with the client
\* socket cli open and its address in addr
net_accept(st, cli) ==
    { [st |-> st, ret |-> -1, af |-> "AF_INET"] }
    \cup { [st |-> [st EXCEPT !.open = @ \cup {cli}], ret |-> 0, af |-> af]
            : af \in st.afs }

\* lines 417-430: the child is entered in the registry and RCONN is written
accept_child(st, tun, cli, tid, af) ==
    LET s1 == list_add_tail([st EXCEPT !.heap[cli].connected = 1,
                                       !.heap[cli].id = tid,
                                       !.heap[cli].af = af], cli)
    IN { Out(IF o.ret < 0 THEN tunnel_close(o.st, tun) ELSE o.st, 0)
           : o \in channel_write(s1, "RCONN", tun, tid, netaddr_to_connans(af),
                                 cli) }

\* a faulty tunnel_accept_event: the id is not compared with 0xff
tunnel_accept_event_unchecked(st, tun, cli) ==
    UNION {
      IF n.ret # 0 THEN { Out(n.st, -1) }
      ELSE LET g == tunnel_generate_id(n.st)
           IN UNION {
                IF al.ret = NULL THEN { Out(net_close(al.st, cli), 0) }
                ELSE UNION {
                       IF a.ret # 0
                       THEN { Out(free(net_close(a.st, cli), cli), 0) }
                       ELSE accept_child(a.st, tun, cli, g.ret, n.af)
                         : a \in event_add_tunnel(al.st, cli, g.ret) }
                  : al \in tunnel_alloc(g.st, cli, g.ret, "accept") }
        : n \in net_accept(st, cli) }

\* cli is the fresh handle of the accepted socket and the pointer of the child
tunnel_accept_event(st, tun, cli) ==
    UNION {
      IF n.ret # 0 THEN { Out(n.st, -1) }
      ELSE LET g == tunnel_generate_id(n.st)
           IN IF g.ret = TidMax THEN { Out(net_close(g.st, cli), 0) }
              ELSE UNION {
                     IF al.ret = NULL THEN { Out(net_close(al.st, cli), 0) }
                     ELSE UNION {
                            IF a.ret # 0
                            THEN { Out(free(net_close(a.st, cli), cli), 0) }
                            ELSE accept_child(a.st, tun, cli, g.ret, n.af)
                              : a \in event_add_tunnel(al.st, cli, g.ret) }
                       : al \in tunnel_alloc(g.st, cli, g.ret, "accept") }
        : n \in net_accept(st, cli) }

\* a faulty tunnel_close_event: CLOSE is written and the tunnel is kept
tunnel_close_event_kept(st, tun) ==
    { Out(o.st, 0) : o \in channel_write(st, "CLOSE", tun, 0, 0, NULL) }

\* a faulty tunnel_close_event: the tunnel is closed and no CLOSE is written
tunnel_close_event_silent(st, tun) ==
    { Out(tunnel_close(st, tun), 0) }

tunnel_close_event(st, tun) ==
    { Out(tunnel_close(o.st, tun), 0)
        : o \in channel_write(st, "CLOSE", tun, 0, 0, NULL) }

\* the FD_CONNECT branch of tunnel_event: lines 489-495
connect_branch(st, tun, err) ==
    UNION {
      IF c.ret # 0 THEN { c }
      ELSE UNION {
             IF w.ret >= 0 THEN tunnel_sockrecv_event(w.st, tun) ELSE { w }
               : w \in tunnel_socksend_event(c.st, tun) }
        : c \in tunnel_connect_event(st, tun, err) }

\* lines 483-500: the handler chosen by the first of FD_ACCEPT, FD_CONNECT,
\* FD_WRITE that is set
first_branch(st, tun, cli, evt, err) ==
    IF "FD_ACCEPT" \in evt THEN tunnel_accept_event(st, tun, cli)
    ELSE IF "FD_CONNECT" \in evt THEN connect_branch(st, tun, err)
    ELSE IF "FD_WRITE" \in evt THEN tunnel_socksend_event(st, tun)
    ELSE { Out(st, 0) }

\* a handler is called on a tunnel that tunnel_accept_event has destroyed: it
\* reads and closes freed memory; what that does is not defined, and the step
\* is marked
use_after_free(o) == { Out([o.st EXCEPT !.uaf = TRUE], o.ret) }

\* lines 502-505
read_branch(S, tun, evt) ==
    UNION { IF o.ret >= 0 /\ "FD_READ" \in evt
            THEN IF tun \in DOMAIN o.st.heap
                 THEN tunnel_sockrecv_event(o.st, tun)
                 ELSE use_after_free(o)
            ELSE { o } : o \in S }

\* a faulty tail of tunnel_event: a negative ret is reported with CLOSE
close_branch_reporting(S, tun, evt) ==
    UNION { IF "FD_CLOSE" \in evt
            THEN tunnel_close_event([o.st EXCEPT !.why = "fdclose"], tun)
            ELSE IF o.ret < 0
            THEN tunnel_close_event([o.st EXCEPT !.why = "error"], tun)
            ELSE { Out(o.st, 0) } : o \in S }

\* lines 507-521: FD_CLOSE returns through tunnel_close_event, otherwise a
\* negative ret closes the tunnel
close_branch(S, tun, evt) ==
    UNION { IF "FD_CLOSE" \in evt
            THEN IF tun \in DOMAIN o.st.heap
                 THEN tunnel_close_event([o.st EXCEPT !.why = "fdclose"], tun)
                 ELSE use_after_free(o)
            ELSE IF o.ret < 0
            THEN { Out(tunnel_close([o.st EXCEPT !.why = "error"], tun), 0) }
            ELSE { Out(o.st, 0) } : o \in S }

\* a socket tunnel: evt is lNetworkEvents, err is iErrorCode[FD_CONNECT_BIT]
tunnel_event_sock(st, tun, cli, evt, err) ==
    close_branch(read_branch(first_branch(st, tun, cli, evt, err), tun, evt),
                 tun, evt)

\* a process tunnel: h is the handle that signalled
tunnel_event_proc(st, tun, h) ==
    IF h = "proc" THEN tunnel_close_event([st EXCEPT !.why = "procexit"], tun)
    ELSE { IF o.ret < 0
           THEN Out(tunnel_close([o.st EXCEPT !.why = "error"], tun), 0)
           ELSE Out(o.st, 0)
             : o \in IF h = "rio" THEN tunnel_fdread_event(st, tun)
                     ELSE tunnel_fdwrite_event(st, tun) }

\* iobuf_append(obuf, data, len): the bytes are queued, or NULL (buffer full)
iobuf_append(st, tun, data) ==
    { Out([st EXCEPT !.heap[tun].wio = @ \o data], 1), Out(st, NULL) }

\* a faulty tunnel_write: a connected tunnel is drained whatever wio held
tunnel_write_eager(st, tun, data) ==
    LET s0 == [st EXCEPT !.wreq[tun] = @ \o data]
    IN UNION {
         IF ap.ret = NULL THEN { Out(ap.st, -1) }
         ELSE IF ap.st.heap[tun].connected = 0 THEN { Out(ap.st, 0) }
         ELSE IF ap.st.heap[tun].proc = 1 THEN tunnel_fdwrite_event(ap.st, tun)
         ELSE UNION { IF uw # 0 THEN { Out(ap.st, -1) }
                      ELSE tunnel_socksend_event(ap.st, tun)
                        : uw \in net_update_watch }
           : ap \in iobuf_append(s0, tun, data) }

\* a faulty tunnel_write: a tunnel that is not connected returns before the
\* bytes are appended
tunnel_write_unqueued(st, tun, data) ==
    LET used == Len(st.heap[tun].wio)
        s0 == [st EXCEPT !.wreq[tun] = @ \o data]
    IN IF s0.heap[tun].connected = 0 THEN { Out(s0, 0) }
       ELSE UNION {
         IF ap.ret = NULL THEN { Out(ap.st, -1) }
         ELSE IF used > 0 THEN { Out(ap.st, 0) }
         ELSE IF ap.st.heap[tun].proc = 1 THEN tunnel_fdwrite_event(ap.st, tun)
         ELSE UNION { IF uw # 0 THEN { Out(ap.st, -1) }
                      ELSE tunnel_socksend_event(ap.st, tun)
                        : uw \in net_update_watch }
           : ap \in iobuf_append(s0, tun, data) }

tunnel_write(st, tun, data) ==
    LET used == Len(st.heap[tun].wio)
        s0 == [st EXCEPT !.wreq[tun] = @ \o data]
    IN UNION {
         IF ap.ret = NULL THEN { Out(ap.st, -1) }
         ELSE IF used > 0 \/ ap.st.heap[tun].connected = 0 THEN { Out(ap.st, 0) }
         ELSE IF ap.st.heap[tun].proc = 1 THEN tunnel_fdwrite_event(ap.st, tun)
         ELSE UNION { IF uw # 0 THEN { Out(ap.st, -1) }
                      ELSE tunnel_socksend_event(ap.st, tun)
                        : uw \in net_update_watch }
           : ap \in iobuf_append(s0, tun, data) }

\* list_for_each_safe over the registry, closing each tunnel
RECURSIVE tunnels_kill(_)
tunnels_kill(st) ==
    IF st.all_tunnels = <<>> THEN st
    ELSE tunnels_kill(tunnel_close(st, Head(st.all_tunnels)))

(***************************************************************************)
(* The callers of tunnel.c: the channel dispatcher and the event engine.   *)
(***************************************************************************)
\* an inbound DATA record for tun: tunnel_write, and on failure the tunnel is
\* reported closed and torn down
write_request(st, tun, data) ==
    UNION { IF w.ret < 0
            THEN tunnel_close_event([w.st EXCEPT !.why = "error"], tun)
            ELSE { w }
              : w \in tunnel_write(st, tun, data) }

\* WSAEnumNetworkEvents(tun->sock.fd, tun->sock.evt, &events): the event sets
\* the socket layer reports, by what the socket is.  A listening socket
\* signals FD_ACCEPT alone; a connecting socket signals FD_CONNECT, with an
\* error code and nothing else, or with success and whatever followed the
\* connect; a connected socket signals any of FD_READ, FD_WRITE, FD_CLOSE.
\* With masks "any" the code is not given that much: FD_READ and FD_CLOSE may
\* come with FD_ACCEPT, and FD_READ, FD_WRITE, FD_CLOSE with a failed connect.
NetworkEvents(st, t) ==
    IF t.server = 1
    THEN { [evt |-> {"FD_ACCEPT"} \cup s, err |-> NoError]
             : s \in IF st.masks = "any" THEN SUBSET {"FD_READ", "FD_CLOSE"}
                     ELSE {{}} }
    ELSE IF t.connected = 0
    THEN { [evt |-> {"FD_CONNECT"} \cup s, err |-> e]
             : e \in st.errs,
               s \in IF st.masks = "any"
                     THEN SUBSET {"FD_READ", "FD_WRITE", "FD_CLOSE"}
                     ELSE {{}} }
         \cup { [evt |-> {"FD_CONNECT"} \cup s, err |-> NoError]
                 : s \in SUBSET {"FD_READ", "FD_WRITE", "FD_CLOSE"} }
    ELSE { [evt |-> s, err |-> NoError]
             : s \in (SUBSET {"FD_READ", "FD_WRITE", "FD_CLOSE"}) \ {{}} }

\* the handles of a process tunnel the event engine waits on
ProcHandles == {"proc", "rio", "wio"}

Kinds == {"connect", "bind", "process"}

\* the payloads of inbound DATA records over an alphabet: one or two bytes
Payloads(alphabet) ==
    { <<x>> : x \in alphabet } \cup { <<x, y>> : x \in alphabet, y \in alphabet }

\* what is remembered of the entry point that ran last
Op(op, tun, st) ==
    [op |-> op, tun |-> tun, gen |-> st.gen, why |-> st.why, lost |-> st.lost,
     cerr |-> st.cerr, drain |-> st.drain, uaf |-> st.uaf]

\* the bounds of a specification: handles allocated, records on the channel,
\* bytes passed to tunnel_write per tunnel and their alphabet, the ids and the
\* kinds of the inbound open requests, and what the socket layer reports
Bounds(handles, chan, bytes, alphabet, ids, kinds, afs, errs, masks) ==
    [handles |-> handles, chan |-> chan, bytes |-> bytes, alphabet |-> alphabet,
     ids |-> ids, kinds |-> kinds, afs |-> afs, errs |-> errs, masks |-> masks]

(***************************************************************************)
(* Specification.                                                          *)
(***************************************************************************)
Init ==
    /\ heap = <<>>
    /\ all_tunnels = <<>>
    /\ last_tid = TidMax
    /\ events = {}
    /\ open = {}
    /\ channel = <<>>
    /\ wreq = <<>>
    /\ wsent = <<>>
    /\ next_h = 1
    /\ last_op = [op |-> "init", tun |-> NULL, gen |-> NoId, why |-> "",
                  lost |-> {}, cerr |-> NoError, drain |-> FALSE,
                  uaf |-> FALSE]

\* an inbound CONN or BIND record: tunnel_create(id, pref_af, host, port, bind)
TunnelCreate(b) ==
    /\ next_h <= b.handles
    /\ \E id \in b.ids, kind \in b.kinds :
         \E o \in tunnel_create(State(b), next_h, id, kind) :
            /\ Len(o.st.channel) <= b.chan
            /\ Install(o.st)
            /\ last_op' = Op("tunnel_create", next_h, o.st)
    /\ next_h' = next_h + 1

\* the event engine hands a signalled socket to the tunnel owning its id
TunnelEventSock(b) ==
    \E e \in events :
       LET tun == tunnel_lookup(State(b), e.id) IN
       /\ tun # NULL
       /\ heap[tun].proc = 0
       /\ \E n \in NetworkEvents(State(b), heap[tun]) :
            /\ "FD_ACCEPT" \in n.evt => next_h <= b.handles
            /\ \E o \in tunnel_event_sock(State(b), tun, next_h, n.evt, n.err) :
                 /\ Len(o.st.channel) <= b.chan
                 /\ Install(o.st)
                 /\ last_op' = Op("tunnel_event", tun, o.st)
            /\ next_h' = IF "FD_ACCEPT" \in n.evt THEN next_h + 1 ELSE next_h

\* the event engine hands a signalled process handle to its tunnel
TunnelEventProc(b) ==
    \E e \in events :
       LET tun == tunnel_lookup(State(b), e.id) IN
       /\ tun # NULL
       /\ heap[tun].proc = 1
       /\ \E h \in ProcHandles :
            \E o \in tunnel_event_proc(State(b), tun, h) :
               /\ Len(o.st.channel) <= b.chan
               /\ Install(o.st)
               /\ last_op' = Op("tunnel_event", tun, o.st)
       /\ UNCHANGED next_h

\* an inbound DATA record for an id whose tunnel carries data
TunnelWrite(b) ==
    \E id \in Tids :
       LET tun == tunnel_lookup(State(b), id) IN
       /\ tun # NULL
       /\ heap[tun].server = 0
       /\ \E data \in Payloads(b.alphabet) :
            /\ Len(wreq[tun]) + Len(data) <= b.bytes
            /\ \E o \in write_request(State(b), tun, data) :
                 /\ Len(o.st.channel) <= b.chan
                 /\ Install(o.st)
                 /\ last_op' = Op("tunnel_write", tun, o.st)
       /\ UNCHANGED next_h

\* an inbound CLOSE record: tunnel_close on the tunnel of that id
TunnelClose(b) ==
    \E id \in Tids :
       LET tun == tunnel_lookup(State(b), id) IN
       /\ tun # NULL
       /\ Install(tunnel_close(State(b), tun))
       /\ last_op' = Op("tunnel_close", tun, State(b))
       /\ UNCHANGED next_h

\* server shutdown
TunnelsKill(b) ==
    /\ all_tunnels # <<>>
    /\ Install(tunnels_kill(State(b)))
    /\ last_op' = Op("tunnels_kill", NULL, State(b))
    /\ UNCHANGED next_h

\* the tunnel life cycle
Life ==
    Bounds(MaxHandles, MaxChan, MaxBytes, {"a"}, 0..1, Kinds, Afs,
           {"WSAECONNREFUSED"}, "usual")

Next ==
    \/ TunnelCreate(Life)
    \/ TunnelEventSock(Life)
    \/ TunnelEventProc(Life)
    \/ TunnelWrite(Life)
    \/ TunnelClose(Life)
    \/ TunnelsKill(Life)

Spec == Init /\ [][Next]_vars

\* the write path: more bytes per tunnel, fewer records on the channel
Wr ==
    Bounds(WrHandles, WrChan, WrBytes, Bytes, {0}, Kinds, {"AF_INET"},
           {"WSAECONNREFUSED"}, "usual")

NextWrite ==
    \/ TunnelCreate(Wr)
    \/ TunnelEventSock(Wr)
    \/ TunnelEventProc(Wr)
    \/ TunnelWrite(Wr)
    \/ TunnelClose(Wr)
    \/ TunnelsKill(Wr)

SpecWrite == Init /\ [][NextWrite]_vars

\* the identifier allocator: more tunnels and every id, no inbound DATA (a
\* write changes the registry only by destroying its tunnel, as TunnelClose)
Id ==
    Bounds(IdHandles, IdChan, 0, {}, Tids, Kinds, {"AF_INET"},
           {"WSAECONNREFUSED"}, "usual")

NextIds ==
    \/ TunnelCreate(Id)
    \/ TunnelEventSock(Id)
    \/ TunnelEventProc(Id)
    \/ TunnelClose(Id)
    \/ TunnelsKill(Id)

SpecIds == Init /\ [][NextIds]_vars

\* outbound connects: connect tunnels only, every OS error code, any event set
Conn ==
    Bounds(ConnHandles, ConnChan, MaxBytes, {"a"}, 0..1, {"connect"}, Afs,
           WsaErrors, "any")

NextConn ==
    \/ TunnelCreate(Conn)
    \/ TunnelEventSock(Conn)
    \/ TunnelWrite(Conn)
    \/ TunnelClose(Conn)
    \/ TunnelsKill(Conn)

SpecConn == Init /\ [][NextConn]_vars

\* listeners and their accepted tunnels under any event set
Wide ==
    Bounds(WideHandles, WideChan, MaxBytes, {"a"}, 0..1, {"bind"}, {"AF_INET"},
           {"WSAECONNREFUSED"}, "any")

NextWide ==
    \/ TunnelCreate(Wide)
    \/ TunnelEventSock(Wide)
    \/ TunnelWrite(Wide)
    \/ TunnelClose(Wide)
    \/ TunnelsKill(Wide)

SpecWide == Init /\ [][NextWide]_vars

\* the allocator on its own: the registry holds a listener and any set of
\* established tunnels with other ids, last_tid is any id, and clients keep
\* connecting to the listener
AllocHandles == TidMax + 2

Alloc ==
    Bounds(AllocHandles, AllocHandles, 0, {}, Tids, {"bind"}, Afs,
           {"WSAECONNREFUSED"}, "usual")

\* the elements of a set of ids in increasing order
SortedIds(S) ==
    CHOOSE q \in [1..Cardinality(S) -> S] :
       \A i, j \in 1..Cardinality(S) : i < j => q[i] < q[j]

InitAlloc ==
    \E l \in Tids, U \in SUBSET Tids, lt \in Tids, af \in Afs :
       LET ids == <<l>> \o SortedIds(U \ {l})
           n == Len(ids)
       IN /\ heap = [p \in 1..n |->
                      IF p = 1
                      THEN [tunnel_t(l, "bind") EXCEPT !.connected = 1,
                                                       !.server = 1,
                                                       !.af = af]
                      ELSE [tunnel_t(ids[p], "connect") EXCEPT !.connected = 1]]
          /\ all_tunnels = [p \in 1..n |-> p]
          /\ last_tid = lt
          /\ events = { [h |-> p, id |-> ids[p]] : p \in 1..n }
          /\ open = 1..n
          /\ channel = <<>>
          /\ wreq = [p \in 1..n |-> <<>>]
          /\ wsent = [p \in 1..n |-> <<>>]
          /\ next_h = n + 1
          /\ last_op = [op |-> "init", tun |-> NULL, gen |-> NoId, why |-> "",
                        lost |-> {}, cerr |-> NoError, drain |-> FALSE,
                        uaf |-> FALSE]

\* a client connects to a listener and tunnel_accept_event gets to allocate an
\* id: the accept goes through with the child in the registry, or it is
\* refused for exhaustion; no tunnel is closed
AcceptAllocates(b) ==
    \E e \in events :
       LET tun == tunnel_lookup(State(b), e.id) IN
       /\ tun # NULL
       /\ heap[tun].server = 1
       /\ next_h <= b.handles
       /\ \E o \in tunnel_event_sock(State(b), tun, next_h, {"FD_ACCEPT"},
                                     NoError) :
            /\ o.st.gen # NoId
            /\ Len(o.st.all_tunnels) >= Len(all_tunnels)
            /\ o.st.gen # TidMax => Len(o.st.all_tunnels) > Len(all_tunnels)
            /\ Install(o.st)
            /\ last_op' = Op("tunnel_event", tun, o.st)
            /\ next_h' = IF o.st.gen # TidMax THEN next_h + 1 ELSE next_h

NextAlloc == AcceptAllocates(Alloc)

\* clients keep connecting
SpecAlloc == InitAlloc /\ [][NextAlloc]_vars /\ WF_vars(NextAlloc)

(***************************************************************************)
(* Properties.                                                             *)
(***************************************************************************)
\* the tunnels of the registry, the ids in it, the ids the event engine holds
Registry == { all_tunnels[i] : i \in DOMAIN all_tunnels }

RegistryIds == { heap[p].id : p \in Registry }

RegisteredIds == { e.id : e \in events }

\* the records of the channel that carry the id of the tunnel object p
RecordsOf(p) == { i \in DOMAIN channel : channel[i].tun = p }

Answers == {"CONN", "BIND"}

\* C1: between operations the ids of the registry are exactly the ids with an
\* outstanding registration in the event engine, also after a tunnel_create
\* that failed.
C1_RegistryMatchesEvents == RegistryIds = RegisteredIds

\* C5: no two tunnels of the registry have the same id, and no tunnel is in
\* the registry twice.
C5_UniqueIds ==
    \A i, j \in DOMAIN all_tunnels :
       i # j => /\ all_tunnels[i] # all_tunnels[j]
                /\ heap[all_tunnels[i]].id # heap[all_tunnels[j]].id

\* the tunnel objects tunnel_create opened as connect or bind tunnels that are
\* established in the registry or have a record on the channel
Opened ==
    { p \in Registry : heap[p].org \in {"connect", "bind"} /\ heap[p].connected = 1 }
    \cup { channel[i].tun : i \in { k \in DOMAIN channel :
                                       channel[k].org \in {"connect", "bind"} } }

AnswersOf(p) == { i \in RecordsOf(p) : channel[i].cmd \in Answers }

\* C2 as claimed: each such tunnel has exactly one answer record, and that
\* record comes before every DATA and CLOSE record of the tunnel.
C2_OneAnswerFirst ==
    \A p \in Opened :
       /\ Cardinality(AnswersOf(p)) = 1
       /\ \A i \in RecordsOf(p) :
             channel[i].cmd \in {"DATA", "CLOSE"}
                => \E j \in AnswersOf(p) : j < i

\* C2 as amended: each such tunnel has at most one answer record, and exactly
\* one once it is established in the registry; every DATA record of the tunnel
\* comes after its answer; no answer follows a CLOSE record of the tunnel.
C2_AnswerBeforeData ==
    \A p \in Opened :
       /\ Cardinality(AnswersOf(p)) <= 1
       /\ p \in Registry /\ heap[p].connected = 1
             => Cardinality(AnswersOf(p)) = 1
       /\ \A i \in RecordsOf(p) :
             /\ channel[i].cmd = "DATA" => \E j \in AnswersOf(p) : j < i
             /\ channel[i].cmd = "CLOSE" => \A j \in AnswersOf(p) : j < i

\* a connect tunnel answered with success, then DATA, then CLOSE, the CLOSE
\* written by an event dispatch that saw FD_CLOSE
C2_Witness ==
    /\ Len(channel) = 3
    /\ last_op.op = "tunnel_event" /\ last_op.why = "fdclose"
    /\ \A i \in 1..3 : channel[i].tun = last_op.tun /\ channel[i].org = "connect"
    /\ channel[1].cmd = "CONN" /\ channel[1].arg = R2TERR_SUCCESS
    /\ channel[2].cmd = "DATA"
    /\ channel[3].cmd = "CLOSE"

\* C3: once a CLOSE record was written for a tunnel, no later record carries
\* that tunnel's id for it and no later RCONN announces it; so the DATA of a
\* last read comes before the CLOSE of the same dispatch.
C3_CloseIsLast ==
    \A i, j \in DOMAIN channel :
       i < j /\ channel[i].cmd = "CLOSE"
          => /\ channel[j].tun # channel[i].tun
             /\ channel[j].new # channel[i].tun

\* a dispatch that saw FD_READ and FD_CLOSE: DATA, then CLOSE as last record
C3_Witness ==
    /\ Len(channel) >= 2
    /\ last_op.op = "tunnel_event" /\ last_op.why = "fdclose"
    /\ channel[Len(channel)].cmd = "CLOSE"
    /\ channel[Len(channel)].tun = last_op.tun
    /\ channel[Len(channel) - 1].cmd = "DATA"
    /\ channel[Len(channel) - 1].tun = last_op.tun
    /\ last_op.tun \notin Registry

IsPrefix(s, t) == Len(s) <= Len(t) /\ SubSeq(t, 1, Len(s)) = s

\* C4: the bytes written to a tunnel's endpoint are a prefix of the bytes
\* passed to tunnel_write for it, in call order; while the tunnel is in the
\* registry the rest is exactly what wio holds.
C4_WriteOrder ==
    \A p \in DOMAIN wreq :
       /\ IsPrefix(wsent[p], wreq[p])
       /\ p \in Registry => wreq[p] = wsent[p] \o heap[p].wio

\* three bytes were passed in more than one call, some reached the endpoint
\* and the rest is still queued
C4_Witness ==
    \E p \in Registry :
       /\ Len(wreq[p]) = WrBytes
       /\ wsent[p] # <<>> /\ heap[p].wio # <<>>
       /\ \E i, j \in DOMAIN wreq[p] : wreq[p][i] # wreq[p][j]

\* the records the step appended for the tunnel object p, by command
Appended(p, cmds) ==
    { i \in DOMAIN channel' :
        i > Len(channel) /\ channel'[i].tun = p /\ channel'[i].cmd \in cmds }

\* C6 as claimed: a step that destroys an established tunnel because of an
\* error of its own (read or write error, failed forward, failed append)
\* removes it from the registry and appends a CLOSE or answer record for it.
\* Steps in which a channel_write failed are left aside: there the record
\* cannot be on the channel whatever the code does.
C6_ErrorIsReported ==
    [][ \A p \in Registry :
          ( /\ heap[p].connected = 1
            /\ last_op'.tun = p /\ last_op'.why = "error"
            /\ last_op'.lost = {} )
          => /\ p \notin Registry'
             /\ Appended(p, {"CLOSE"} \cup Answers) # {} ]_vars

\* C7 as claimed: a step that closes an established tunnel on FD_CLOSE or on
\* the exit of its child appends exactly one CLOSE record for it and removes
\* it from the registry; tunnel_close called for the controller removes it
\* and appends nothing.
C7_OneCloseRecord ==
    [][ \A p \in Registry :
          heap[p].connected = 1 /\ last_op'.tun = p
          => /\ last_op'.why \in {"fdclose", "procexit"}
                  => /\ p \notin Registry'
                     /\ Cardinality(Appended(p, {"CLOSE"})) = 1
             /\ last_op'.op = "tunnel_close"
                  => p \notin Registry' /\ channel' = channel ]_vars

\* C7 as amended: such a step writes CLOSE once: it appends exactly one CLOSE
\* record when that channel_write succeeds and none when it fails, and removes
\* the tunnel either way; tunnel_close called for the controller removes the
\* tunnel and appends nothing.
C7_CloseWrittenOnce ==
    [][ \A p \in Registry :
          heap[p].connected = 1 /\ last_op'.tun = p
          => /\ last_op'.why \in {"fdclose", "procexit"}
                  => /\ p \notin Registry'
                     /\ Cardinality(Appended(p, {"CLOSE"}))
                          = IF "CLOSE" \in last_op'.lost THEN 0 ELSE 1
             /\ last_op'.op = "tunnel_close"
                  => p \notin Registry' /\ channel' = channel ]_vars

\* the child of a process tunnel has exited: its CLOSE is the last record and
\* the tunnel is gone
C7_Witness ==
    /\ last_op.op = "tunnel_event" /\ last_op.why = "procexit"
    /\ last_op.lost = {}
    /\ channel # <<>>
    /\ channel[Len(channel)].cmd = "CLOSE"
    /\ channel[Len(channel)].tun = last_op.tun
    /\ channel[Len(channel)].org = "process"
    /\ last_op.tun \notin Registry

\* the ids tunnel_generate_id tries, in order, from a value of last_tid
ScanOrder(last) == [k \in 1..TidMax |-> (last + k) % (TidMax + 1)]

\* C8: an id returned by tunnel_generate_id (0xff, TidMax here, is no id) is
\* not in the registry when it is returned, and the tunnel an accept adds to
\* the registry gets that id.
C8_GeneratedIdIsFree ==
    [][ /\ last_op'.gen \notin {NoId, TidMax} => last_op'.gen \notin RegistryIds
        /\ \A p \in Registry' \ Registry :
              heap'[p].org = "accept"
                 => /\ heap'[p].id = last_op'.gen
                    /\ heap'[p].id \notin RegistryIds ]_vars

\* an accepted tunnel got id 1 because id 0 was taken
C8_Witness ==
    /\ last_op.op = "tunnel_event" /\ last_op.gen = 1
    /\ \E p, q \in Registry :
          /\ heap[p].org = "accept" /\ heap[p].id = 1
          /\ heap[q].id = 0 /\ heap[q].server = 1 /\ q = last_op.tun

\* C9 as claimed: tunnel_generate_id returns the first id, in the order
\* last_tid+1, last_tid+2, ... (mod 256), that is not in the registry, and it
\* returns 0xff for exhaustion only when every id 0x00..0xfe is in the
\* registry.
C9_FirstFreeOrFull ==
    [][ last_op'.gen # NoId
        => /\ last_op'.gen # TidMax
                => \E k \in 1..TidMax :
                      /\ ScanOrder(last_tid)[k] = last_op'.gen
                      /\ last_op'.gen \notin RegistryIds
                      /\ \A j \in 1..(k - 1) :
                            ScanOrder(last_tid)[j] \in RegistryIds
           /\ last_op'.gen = TidMax
                => \A id \in 0..(TidMax - 1) : id \in RegistryIds ]_vars

\* C10: when the accept finds no free id (tunnel_generate_id returns 0xff) the
\* accepted socket is closed, nothing is written to the channel, the registry
\* and the tunnels are as before, the listener is still in the registry and
\* registered with the event engine; and no accepted tunnel has id 0xff.
C10_ExhaustionIsSoft ==
    /\ [][ last_op'.op = "tunnel_event" /\ last_op'.gen = TidMax
            => /\ next_h \notin open'
               /\ open' = open
               /\ channel' = channel
               /\ all_tunnels' = all_tunnels
               /\ heap' = heap
               /\ events' = events
               /\ last_op'.tun \in Registry'
               /\ heap'[last_op'.tun].server = 1
               /\ \E e \in events' : e.h = last_op'.tun ]_vars
    /\ [](\A p \in Registry : heap[p].org = "accept" => heap[p].id # TidMax)

\* an accept was refused with every id below 0xff in the registry
C10_Witness ==
    /\ last_op.op = "tunnel_event" /\ last_op.gen = TidMax
    /\ \A id \in 0..(TidMax - 1) : id \in RegistryIds
    /\ last_op.tun \in Registry

\* C11: a tunnel_event or tunnel_write step for the tunnel T leaves every other
\* tunnel of the registry in the registry, at its place among the others, with
\* its fields and its endpoint as they were; the registry gains at most one
\* tunnel, the accepted child, and only when T is a listener.
C11_OthersUntouched ==
    [][ last_op'.op \in {"tunnel_event", "tunnel_write"}
        => /\ \A p \in Registry \ {last_op'.tun} :
                 /\ p \in Registry'
                 /\ heap'[p] = heap[p]
                 /\ (p \in open') = (p \in open)
           /\ SelectSeq(all_tunnels', LAMBDA p : p \in Registry \ {last_op'.tun})
                 = SelectSeq(all_tunnels, LAMBDA p : p # last_op'.tun)
           /\ Cardinality(Registry' \ Registry) <= 1
           /\ \A p \in Registry' \ Registry :
                 /\ heap[last_op'.tun].server = 1
                 /\ heap'[p].org = "accept" ]_vars

\* a tunnel was torn down after an error while another one is in the registry
C11_Witness ==
    /\ last_op.op = "tunnel_event" /\ last_op.why = "error"
    /\ last_op.tun \notin Registry
    /\ \E p \in Registry : heap[p].connected = 1 /\ p < last_op.tun

\* the record a failed connect of the tunnel p is answered with
IsConnError(r, p, err) ==
    /\ r.cmd = "CONN" /\ r.tun = p /\ r.len = 1
    /\ r.arg = wsa_to_r2t_error(err) /\ r.arg # R2TERR_SUCCESS
    /\ err = "WSAECONNREFUSED" => r.arg = R2TERR_CONNREFUSED

C13_AnswerPayload ==
    \A i \in DOMAIN channel :
       channel[i].cmd \in Answers
          => IF channel[i].arg # R2TERR_SUCCESS
             THEN channel[i].len = 1
             ELSE channel[i].len \in {8, 20}

\* C14: between operations every open endpoint (socket, or the pipes and the
\* child of a process tunnel) belongs to a tunnel of the registry: the
\* endpoints of a destroyed tunnel, and of a tunnel whose creation failed, are
\* closed.
C14_NoOrphanEndpoint == open \subseteq Registry

Written(p) == SubSeq(wreq'[p], Len(wreq[p]) + 1, Len(wreq'[p]))

\* C16: a tunnel_write step for the tunnel p attempts a write to the endpoint
\* only if p was established and wio empty; otherwise, unless the append
\* failed and p was torn down, nothing is written to the endpoint and wio is
\* what it was followed by the new bytes.  A tunnel_event step that takes p
\* with queued bytes from pending to established attempts the write.
C16_DrainWhenDue ==
    [][ \A p \in Registry :
          /\ last_op'.op = "tunnel_write" /\ last_op'.tun = p
               => /\ Written(p) # <<>>
                  /\ last_op'.drain
                       => heap[p].connected = 1 /\ heap[p].wio = <<>>
                  /\ ( /\ (heap[p].connected = 0 \/ heap[p].wio # <<>>)
                        /\ p \in Registry' )
                       => /\ ~last_op'.drain
                          /\ wsent'[p] = wsent[p]
                          /\ heap'[p].wio = heap[p].wio \o Written(p)
                  /\ p \in Registry'
                       => wsent'[p] \o heap'[p].wio
                            = wsent[p] \o heap[p].wio \o Written(p)
          /\ ( /\ last_op'.op = "tunnel_event" /\ last_op'.tun = p
                /\ heap[p].connected = 0 /\ heap[p].wio # <<>>
                /\ p \in Registry' /\ heap'[p].connected = 1 )
               => last_op'.drain ]_vars

\* bytes were passed to tunnel_write for a pending tunnel: they are queued
\* and no write to the endpoint was attempted
C16_Witness ==
    /\ last_op.op = "tunnel_write" /\ ~last_op.drain
    /\ last_op.tun \in Registry
    /\ heap[last_op.tun].connected = 0
    /\ Len(heap[last_op.tun].wio) >= 2
    /\ heap[last_op.tun].wio = wreq[last_op.tun]

\* C17: a tunnel_event step of a listener that adds the accepted child to the
\* registry adds it established and with the minted id, appends exactly one
\* record, the RCONN with the listener's id that carries the new id, and
\* leaves the listener in the registry; and every DATA record of an accepted
\* tunnel comes after the RCONN that announces it.
C17_AcceptAnnounced ==
    /\ [][ \A c \in Registry' \ Registry :
              heap'[c].org = "accept"
                 => /\ last_op'.op = "tunnel_event"
                    /\ heap[last_op'.tun].server = 1
                    /\ heap'[c].connected = 1
                    /\ heap'[c].id = last_op'.gen
                    /\ Len(channel') = Len(channel) + 1
                    /\ SubSeq(channel', 1, Len(channel)) = channel
                    /\ channel'[Len(channel')].cmd = "RCONN"
                    /\ channel'[Len(channel')].id = heap[last_op'.tun].id
                    /\ channel'[Len(channel')].arg = last_op'.gen
                    /\ channel'[Len(channel')].new = c
                    /\ last_op'.tun \in Registry' ]_vars
    /\ [](\A i \in DOMAIN channel :
            channel[i].cmd = "DATA" /\ channel[i].org = "accept"
               => \E j \in 1..(i - 1) :
                     channel[j].cmd = "RCONN" /\ channel[j].new = channel[i].tun)

\* C18: a call of tunnel_generate_id that returns an id returns another id
\* than last_tid and stores it in last_tid, and no step without a call changes
\* last_tid; a call that returns the exhaustion value either leaves last_tid or
\* has found that value free and stored it. So two calls in a row that both
\* return an id return different ids, whatever was closed in between.
C18_IdsRotate ==
    [][ /\ last_op'.gen \notin {NoId, TidMax}
             => last_op'.gen # last_tid /\ last_tid' = last_op'.gen
        /\ last_op'.gen = TidMax
             => \/ last_tid' = last_tid
                \/ last_tid # TidMax /\ last_tid' = TidMax
        /\ last_op'.gen = NoId => last_tid' = last_tid ]_vars

\* id 0 was minted and its tunnel closed; the next call minted 1 although 0
\* was free again
C18_Witness ==
    /\ last_op.op = "tunnel_event" /\ last_op.gen = 1
    /\ 0 \notin RegistryIds
    /\ \E i \in DOMAIN channel :
          /\ channel[i].cmd = "RCONN" /\ channel[i].arg = 0
          /\ channel[i].new \notin Registry

\* C20: every accepted tunnel that is in the registry or registered with the
\* event engine was announced by an RCONN record on the channel.
C20_AcceptedAnnounced ==
    \A c \in DOMAIN heap :
       ( /\ heap[c].org = "accept"
         /\ c \in Registry \/ \E e \in events : e.h = c )
       => \E i \in DOMAIN channel :
             channel[i].cmd = "RCONN" /\ channel[i].new = c

\* C19: no handler is run on a tunnel after tunnel_close destroyed it: in no
\* tunnel_event dispatch does a later branch (FD_READ, FD_CLOSE, the ret < 0
\* teardown) act on a tunnel that an earlier branch of the dispatch destroyed.
C19_NoUseAfterClose == ~last_op.uaf

====
